---- MODULE Spec2Model ----
(***************************************************************************)
(* DocumentProcessor of src/utils/document_processor.py: the cache         *)
(* directory, the scratch directory ./temp, and the calls process_file,    *)
(* clear_cache and clear_temp_files.                                       *)
(*                                                                         *)
(* File bytes are sequences of bytes, file names sequences of characters   *)
(* ending in an extension.  The PDF parser and the text splitter are       *)
(* external libraries: they are modelled as deterministic functions of the *)
(* file found at the path handed to the loader.  I/O faults (open, write,  *)
(* read, unlink) are nondeterministic choices of the environment.          *)
(***************************************************************************)
EXTENDS Integers, Sequences, FiniteSets, TLC

VARIABLES
    files,      \* the files the callers of this run hold: [shape, content, name]
    cacheDir,   \* self.cache_dir: cache key -> content of <key>.json
    tempDir,    \* self.temp_dir: scratch file name -> bytes of the file
    nextId,     \* the next value uuid.uuid4() yields (a fresh name per call)
    calls,      \* caller -> frame of its process_file call
    nops,       \* operations started so far
    nfaults,    \* I/O faults the environment has injected so far
    written,    \* history: cache key -> [by, docs] of the last complete _save_to_cache
    last        \* history: the record of the operation that finished last

vars == <<files, cacheDir, tempDir, nextId, calls, nops, nfaults, written, last>>

-----------------------------------------------------------------------------
(* Bounds *)

MaxOps == 3
MaxFaults == 1

-----------------------------------------------------------------------------
(* Inputs *)

\* "a": an ASCII byte; as part of a PDF it stands for a page with text.
\* "b": a byte that is not valid UTF-8 on its own; as part of a PDF it stands
\*      for a page with no extractable text.
Contents == {<<>>, <<"a">>, <<"b">>, <<"a", "a">>}

Names ==
    {<<".pdf">>, <<"a", ".pdf">>, <<"a", ".PDF">>,
     <<"a", ".txt">>, <<"a", ".TXT">>, <<"a", ".docx">>}

NoName == <<>>

\* What the first argument of process_file can be: an upload object (with
\* getvalue and name), raw bytes with a file name, raw bytes without a file
\* name, or anything else (here: a str passed with a file name).
Inputs ==
    [shape : {"upload", "bytes"}, content : Contents, name : Names]
    \cup [shape : {"bytes_noname"}, content : {<<"a">>}, name : {NoName}]
    \cup [shape : {"other"}, content : {<<>>}, name : {<<"a", ".pdf">>}]

None == 0

-----------------------------------------------------------------------------
(* Pure functions *)

\* str.lower() on a file name: only the extension tokens hold upper case.
LowerChar(ch) ==
    IF ch = ".PDF" THEN ".pdf" ELSE IF ch = ".TXT" THEN ".txt" ELSE ch

Lower(name) == [i \in 1..Len(name) |-> LowerChar(name[i])]

EndsWith(name, ext) == Len(name) > 0 /\ name[Len(name)] = ext

\* str.encode(): the UTF-8 bytes of a file name, byte for char.
Encode(name) == [i \in 1..Len(name) |-> name[i]]

\* hashlib.md5(...).hexdigest(), taken as collision-free: the digest stands
\* for the string it was computed from.
Md5(data) == <<"md5">> \o data

\* _get_cache_path: the digest of the bytes followed by the encoded name.
GetCachePath(file_content, file_name) == Md5(file_content \o Encode(file_name))

\* bytes.decode('utf-8'): fails on a byte that is not valid UTF-8.
DecodeOk(file_content) == \A i \in 1..Len(file_content) : file_content[i] = "a"

Decode(file_content) == [i \in 1..Len(file_content) |-> "a"]

\* PyPDFLoader(path).load(): fails when there is no file at the path or the
\* file is no PDF (here: it is empty); otherwise one page Document per
\* page, whose metadata names the path the loader was given.
ParseOk(dir, path) == path \in DOMAIN dir /\ dir[path] # <<>>

PageText(b) == IF b = "a" THEN "text" ELSE ""

LoaderLoad(dir, path) ==
    [i \in 1..Len(dir[path]) |->
        [page_content |-> PageText(dir[path][i]),
         metadata |-> [source |-> path, page |-> i - 1]]]

\* text_splitter.split_documents: the chunks of the pages, in page order; a
\* page without text yields no chunk, a page with text one chunk that keeps
\* the page's metadata.
RECURSIVE SplitDocuments(_)
SplitDocuments(documents) ==
    IF documents = <<>> THEN <<>>
    ELSE IF Head(documents).page_content = ""
         THEN SplitDocuments(Tail(documents))
         ELSE <<Head(documents)>> \o SplitDocuments(Tail(documents))

\* doc.dict(): the serializable dictionary of a Document.
DocDict(doc) ==
    [page_content |-> doc.page_content, metadata |-> doc.metadata, type |-> "Document"]

\* A Document(...) that is given the text only.
DocFromDictTextOnly(d) ==
    [page_content |-> d.page_content, metadata |-> [source |-> None, page |-> 0]]

\* Document(**doc): the Document built from a dictionary's fields.
DocFromDict(d) == [page_content |-> d.page_content, metadata |-> d.metadata]

\* json.dump of the list of dictionaries: every value tagged with its JSON type.
JsonDump(docs_data) ==
    [i \in 1..Len(docs_data) |->
        [page_content |-> [str |-> docs_data[i].page_content],
         metadata |-> [source |-> [str |-> docs_data[i].metadata.source],
                       page |-> [num |-> docs_data[i].metadata.page]],
         type |-> [str |-> docs_data[i].type]]]

\* json.load: the Python values of the JSON text.
JsonLoad(text) ==
    [i \in 1..Len(text) |->
        [page_content |-> text[i].page_content.str,
         metadata |-> [source |-> text[i].metadata.source.str,
                       page |-> text[i].metadata.page.num],
         type |-> text[i].type.str]]

\* The complete file _save_to_cache writes for a list of Documents.
CacheFile(documents) ==
    [complete |-> TRUE,
     json |-> JsonDump([i \in 1..Len(documents) |-> DocDict(documents[i])])]

\* The file left behind when json.dump fails after open(..., 'w'): a prefix
\* of the JSON text, which json.load rejects.
PartialFile == [complete |-> FALSE, json |-> <<>>]

\* What _load_from_cache builds from a complete cache file.
CachedDocs(file) ==
    LET data == JsonLoad(file.json)
    IN  [i \in 1..Len(data) |-> DocFromDict(data[i])]

\* "\n\n".join(doc.page_content for doc in docs): the texts in order.
JoinText(docs) == [i \in 1..Len(docs) |-> docs[i].page_content]

-----------------------------------------------------------------------------
(* Records *)

Callers == {1}

\* The sets of files a run works with: one file, or two.
FileSets == {{f, g} : f \in Inputs, g \in Inputs}

NoFile == [shape |-> "none", content |-> <<>>, name |-> NoName]

EmptyDir == [k \in {} |-> None]

Remove(dir, gone) == [k \in DOMAIN dir \ gone |-> dir[k]]

\* The record of one operation, filled in while it runs.
\*   outcome                   : "return" or "raise"
\*   kind, val                 : the value returned
\*   etype, cause              : the exception raised, and the one it wraps
\*   docs                      : the chunks _process_pdf returned
\*   hit, loadFailed           : what _load_from_cache did
\*   hitBy, original           : on a hit: the file whose call wrote the record,
\*                               and the chunks that call had handed to the cache
\*   scratchTried              : _create_temp_file was called
\*   created                   : the scratch file this call created, or None
\*   parsed, parseFailed       : the parser was invoked; it raised
\*   fresh                     : the chunks the splitter produced in this call
\*   saved                     : _save_to_cache: "no", "ok", "failed"
\*   unlinkFailed              : the unlink of the scratch file failed
\*   pending                   : the outcome the call had when cleanup began
\*   before                    : process_file: the cache records there at the
\*                               start; clear_*: the files there at the start
\*   cacheBefore, tempBefore   : the two directories as they were at the start
\*   lookedUp                  : _load_from_cache was called
\*   left, failedAt            : clear_*: the files left, the file whose
\*                               unlink failed
\*   pred                      : the operation that had finished last before
NoOp ==
    [op |-> "none", file |-> NoFile, outcome |-> "none", kind |-> "none", val |-> <<>>,
     etype |-> "", cause |-> "", docs |-> <<>>, hit |-> FALSE, loadFailed |-> FALSE,
     hitBy |-> NoFile, original |-> <<>>, scratchTried |-> FALSE, created |-> None,
     parsed |-> FALSE, parseFailed |-> FALSE, fresh |-> <<>>, saved |-> "no",
     unlinkFailed |-> FALSE, pending |-> "none", lookedUp |-> FALSE,
     cacheBefore |-> <<>>, tempBefore |-> <<>>,
     before |-> {}, left |-> {}, failedAt |-> {}, pred |-> <<>>]

Strip(rec) == [rec EXCEPT !.pred = <<>>, !.cacheBefore = <<>>, !.tempBefore = <<>>]

\* The frame of a call: where it is, its local variables (offset: how much of
\* the cache file its open file object has written), and its record.  An
\* idle frame keeps the record of the call that ended there.
IdleFrame ==
    [pc |-> "idle", file_content |-> <<>>, file_name |-> <<>>, cache_path |-> <<>>,
     temp_path |-> None, split_docs |-> <<>>, offset |-> 0, exc |-> "", rec |-> NoOp]

\* @error_handler() (utils.decorators): logs the exception and lets it
\* reach the caller.
ErrorHandler(result) == result

Returned(kind, val) ==
    [outcome |-> "return", kind |-> kind, val |-> val, etype |-> "", cause |-> ""]

Raised(etype, cause) ==
    [outcome |-> "raise", kind |-> "none", val |-> <<>>, etype |-> etype, cause |-> cause]

\* process_file, lines 226-230: what comes out of the .pdf branch.
PdfResult(shape, docs) ==
    IF shape = "upload" THEN Returned("text", JoinText(docs)) ELSE Returned("docs", docs)

\* process_file, lines 236-238: any exception is logged and raised again as
\* Exception("处理文件失败: ..."), which carries the message of the cause.
Wrap(result) ==
    IF result.outcome = "raise" THEN Raised("Exception", result.etype) ELSE result

\* The record of a finished operation.
Finished(rec, result) ==
    [rec EXCEPT !.outcome = result.outcome, !.kind = result.kind,
                !.val = result.val, !.etype = result.etype, !.cause = result.cause]

-----------------------------------------------------------------------------
(* The state after DocumentProcessor() in a fresh working directory *)

Init ==
    /\ files \in FileSets
    /\ cacheDir = EmptyDir
    /\ tempDir = EmptyDir
    /\ nextId = 1
    /\ calls = [c \in Callers |-> IdleFrame]
    /\ nops = 0
    /\ nfaults = 0
    /\ written = EmptyDir
    /\ last = NoOp

NoFault == nfaults' = nfaults

Fault == nfaults < MaxFaults /\ nfaults' = nfaults + 1

\* The operation ends: its record becomes the last one, the frame is dropped.
Finish(c, rec, result) ==
    /\ last' = Finished(rec, result)
    /\ calls' = [calls EXCEPT ![c] = [IdleFrame EXCEPT !.rec = Strip(last')]]

\* One operation at a time: the component is used single-threaded.
Quiet == \A c \in Callers : calls[c].pc = "idle"

-----------------------------------------------------------------------------
(* process_file *)

\* A check that takes bytes without asking for the file name.
ValidInputWithoutName(f) == f.shape \in {"upload", "bytes", "bytes_noname"}

\* Lines 214-222: an object with getvalue and name, or bytes together with
\* a file name; anything else raises ValueError.
ValidInput(f) == f.shape \in {"upload", "bytes"}

\* A dispatch on the name as given, without lower().
FileTypeCaseSensitive(file_name) ==
    IF EndsWith(file_name, ".pdf") THEN "pdf"
    ELSE IF EndsWith(file_name, ".txt") THEN "txt"
    ELSE "other"

\* Lines 225-233: the branch taken, by the extension of the lower-cased name.
FileType(file_name) ==
    IF EndsWith(Lower(file_name), ".pdf") THEN "pdf"
    ELSE IF EndsWith(Lower(file_name), ".txt") THEN "txt"
    ELSE "other"

\* Line 232: the decoded text, or the UnicodeDecodeError of decode().
TextResult(file_content) ==
    IF DecodeOk(file_content) THEN Returned("text", Decode(file_content))
    ELSE Raised("UnicodeDecodeError", "")

\* An else branch that raises instead of returning.
UnsupportedResultRaising(file_name) == Raised("ValueError", file_name)

\* Line 234: a string that names the file.
UnsupportedResult(file_name) == Returned("unsupported", file_name)

\* Lines 212-234: the input is checked and the call dispatched on the
\* extension.  The .pdf branch goes on in _process_pdf.
ProcessFile(c, f) ==
    LET rec == [NoOp EXCEPT !.op = "process_file", !.file = f,
                            !.before = DOMAIN cacheDir, !.cacheBefore = cacheDir,
                            !.tempBefore = tempDir, !.pred = Strip(last)]
    IN  /\ calls[c].pc = "idle"
        /\ nops < MaxOps
        /\ nops' = nops + 1
        /\ NoFault
        /\ UNCHANGED <<files, cacheDir, tempDir, nextId, written>>
        /\ IF ~ValidInput(f)
           THEN Finish(c, rec, ErrorHandler(Wrap(Raised("ValueError", ""))))
           ELSE IF FileType(f.name) = "pdf"
           THEN /\ calls' = [calls EXCEPT ![c] =
                        [IdleFrame EXCEPT !.pc = "load", !.file_content = f.content,
                                          !.file_name = f.name, !.rec = rec,
                                          !.cache_path = GetCachePath(f.content, f.name)]]
                /\ UNCHANGED last
           ELSE IF FileType(f.name) = "txt"
           THEN Finish(c, rec, ErrorHandler(Wrap(TextResult(f.content))))
           ELSE Finish(c, rec, ErrorHandler(UnsupportedResult(f.name)))

\* The end of a call that went through _process_pdf: the result passes
\* _process_pdf's decorator, then process_file's lines 226-238 and decorator.
FinishPdf(c, rec, result) ==
    LET inner == ErrorHandler(result)
        shape == rec.file.shape
    IN  Finish(c, [rec EXCEPT !.docs = inner.val],
               ErrorHandler(IF inner.outcome = "raise" THEN Wrap(inner)
                            ELSE PdfResult(shape, inner.val)))

\* A _load_from_cache that looks for the record in the wrong place.
LoadFromCacheResultNoFile(dir, path, readFails) == [status |-> "none", docs |-> <<>>]

\* A _load_from_cache without its except clause: the failure is raised.
LoadFromCacheResultRaising(dir, path, readFails) ==
    IF path \notin DOMAIN dir THEN [status |-> "none", docs |-> <<>>]
    ELSE IF readFails \/ ~dir[path].complete
         THEN [status |-> "JSONDecodeError", docs |-> <<>>]
    ELSE [status |-> "docs", docs |-> CachedDocs(dir[path])]

\* _load_from_cache: None when there is no file at the path; the Documents
\* of the file when it is read and deserialized; None again, after a
\* warning, when open() or json.load raises (lines 77-79).
LoadFromCacheResult(dir, path, readFails) ==
    IF path \notin DOMAIN dir THEN [status |-> "none", docs |-> <<>>]
    ELSE IF readFails \/ ~dir[path].complete THEN [status |-> "failed", docs |-> <<>>]
    ELSE [status |-> "docs", docs |-> CachedDocs(dir[path])]

\* A cache check that unlinks the record it has served.
LoadFromCacheConsuming(c) ==
    LET fr == calls[c]
        path == fr.cache_path
        cached == LoadFromCacheResult(cacheDir, path, FALSE)
    IN  /\ fr.pc = "load"
        /\ NoFault
        /\ UNCHANGED <<files, tempDir, nextId, nops, written>>
        /\ IF cached.status = "docs"
           THEN /\ cacheDir' = Remove(cacheDir, {path})
                /\ FinishPdf(c, [fr.rec EXCEPT !.hit = TRUE, !.lookedUp = TRUE,
                                               !.hitBy = written[path].by,
                                               !.original = written[path].docs],
                             Returned("docs", cached.docs))
           ELSE /\ UNCHANGED <<cacheDir, last>>
                /\ calls' = [calls EXCEPT ![c].pc = "create",
                                          ![c].rec.lookedUp = TRUE,
                                          ![c].rec.loadFailed = (cached.status = "failed")]

\* _process_pdf, lines 142-146: cached Documents are returned at once;
\* without them the call goes on to parse the file.
LoadFromCache(c) ==
    LET fr == calls[c]
        path == fr.cache_path
    IN  /\ fr.pc = "load"
        /\ UNCHANGED <<files, cacheDir, tempDir, nextId, nops, written>>
        /\ \E readFails \in BOOLEAN :
             LET cached == LoadFromCacheResult(cacheDir, path, readFails)
             IN  /\ IF readFails
                    THEN path \in DOMAIN cacheDir /\ cacheDir[path].complete /\ Fault
                    ELSE NoFault
                 /\ CASE cached.status = "docs" ->
                           FinishPdf(c, [fr.rec EXCEPT !.hit = TRUE, !.lookedUp = TRUE,
                                                       !.hitBy = written[path].by,
                                                       !.original = written[path].docs],
                                     Returned("docs", cached.docs))
                      [] cached.status = "none" ->
                           /\ calls' = [calls EXCEPT ![c].pc = "create",
                                                     ![c].rec.lookedUp = TRUE]
                           /\ UNCHANGED last
                      [] cached.status = "failed" ->
                           /\ calls' = [calls EXCEPT ![c].pc = "create",
                                                     ![c].rec.lookedUp = TRUE,
                                                     ![c].rec.loadFailed = TRUE]
                           /\ UNCHANGED last
                      [] OTHER ->    \* the exception leaves _process_pdf
                           FinishPdf(c, [fr.rec EXCEPT !.lookedUp = TRUE,
                                                       !.loadFailed = TRUE],
                                     Raised(cached.status, ""))

\* An except clause that logs and returns an empty list.
OnExceptionReturnsEmpty(e) == Returned("docs", <<>>)

\* _process_pdf, lines 169-171: the exception is logged and raised again.
OnException(e) == e

\* _create_temp_file, called at line 154: a file with a fresh name is opened
\* in temp_dir and the bytes are written to it.  When open() or write()
\* fails the exception leaves _process_pdf through lines 169-175 with
\* temp_path still None, so nothing is cleaned up.
CreateTempFile(c) ==
    LET fr == calls[c]
        temp_filename == nextId
    IN  /\ fr.pc = "create"
        /\ nextId' = nextId + 1
        /\ UNCHANGED <<files, cacheDir, nops, written>>
        /\ \/ /\ NoFault
              /\ tempDir' = (temp_filename :> fr.file_content) @@ tempDir
              /\ calls' = [calls EXCEPT ![c].pc = "parse",
                                        ![c].temp_path = temp_filename,
                                        ![c].rec.scratchTried = TRUE,
                                        ![c].rec.created = temp_filename]
              /\ UNCHANGED last
           \/ /\ Fault             \* open(temp_path, 'wb') fails: no file
              /\ UNCHANGED tempDir
              /\ FinishPdf(c, [fr.rec EXCEPT !.scratchTried = TRUE],
                           OnException(Raised("OSError", "")))
           \/ /\ Fault             \* f.write fails: the opened file stays
              /\ tempDir' = (temp_filename :> <<>>) @@ tempDir
              /\ FinishPdf(c, [fr.rec EXCEPT !.scratchTried = TRUE,
                                             !.created = temp_filename],
                           OnException(Raised("OSError", "")))

\* Lines 157-161: the loader parses the scratch file and the splitter
\* chunks its pages; a parser failure goes to lines 169-171.
LoadAndSplit(c) ==
    LET fr == calls[c]
        split == SplitDocuments(LoaderLoad(tempDir, fr.temp_path))
    IN  /\ fr.pc = "parse"
        /\ NoFault
        /\ UNCHANGED <<files, cacheDir, tempDir, nextId, nops, written, last>>
        /\ IF ParseOk(tempDir, fr.temp_path)
           THEN calls' = [calls EXCEPT ![c].pc = "save", ![c].split_docs = split,
                                       ![c].rec.parsed = TRUE, ![c].rec.fresh = split]
           ELSE calls' = [calls EXCEPT ![c].pc = "cleanup", ![c].exc = "PdfError",
                                       ![c].rec.parsed = TRUE,
                                       ![c].rec.parseFailed = TRUE]

\* A save without the test of line 164.
ShouldSaveAlways(split_docs) == TRUE

\* Line 164, "if split_docs:": an empty chunk list is not saved.
ShouldSave(split_docs) == split_docs # <<>>

\* Lines 164-165 with _save_to_cache: a non-empty chunk list is written to
\* the cache file; a failure of open() or json.dump is logged and dropped.
SaveToCache(c) ==
    LET fr == calls[c]
        path == fr.cache_path
    IN  /\ fr.pc = "save"
        /\ UNCHANGED <<files, tempDir, nextId, nops, last>>
        /\ IF ~ShouldSave(fr.split_docs)
           THEN /\ NoFault
                /\ calls' = [calls EXCEPT ![c].pc = "cleanup"]
                /\ UNCHANGED <<cacheDir, written>>
           ELSE \/ /\ NoFault
                   /\ cacheDir' = (path :> CacheFile(fr.split_docs)) @@ cacheDir
                   /\ written' = (path :> [by |-> fr.rec.file, docs |-> fr.split_docs])
                                    @@ written
                   /\ calls' = [calls EXCEPT ![c].pc = "cleanup", ![c].rec.saved = "ok"]
                \/ /\ Fault        \* open(cache_path, 'w') fails: nothing written
                   /\ UNCHANGED <<cacheDir, written>>
                   /\ calls' = [calls EXCEPT ![c].pc = "cleanup",
                                             ![c].rec.saved = "failed"]
                \/ /\ Fault        \* json.dump fails: a truncated file stays
                   /\ cacheDir' = (path :> PartialFile) @@ cacheDir
                   /\ UNCHANGED written
                   /\ calls' = [calls EXCEPT ![c].pc = "cleanup",
                                             ![c].rec.saved = "failed"]

\* A _cleanup_temp_file without its except clause.
CleanupResultRaising(pending, unlinkFailed) ==
    IF unlinkFailed THEN Raised("OSError", "") ELSE pending

\* _cleanup_temp_file, lines 124-129: whatever the unlink does, the outcome
\* of the call stays the one it had.
CleanupResult(pending, unlinkFailed) == pending

\* Lines 167-175: the return value or the parser's exception is on its way
\* out; the finally clause removes the scratch file first.
CleanupTempFile(c) ==
    LET fr == calls[c]
        pending == IF fr.exc = "" THEN Returned("docs", fr.split_docs)
                   ELSE OnException(Raised(fr.exc, ""))
        rec == [fr.rec EXCEPT !.pending = pending.outcome]
    IN  /\ fr.pc = "cleanup"
        /\ UNCHANGED <<files, cacheDir, nextId, nops, written>>
        /\ \/ /\ NoFault
              /\ tempDir' = Remove(tempDir, {fr.temp_path})
              /\ FinishPdf(c, rec, CleanupResult(pending, FALSE))
           \/ /\ fr.temp_path \in DOMAIN tempDir
              /\ Fault             \* os.unlink fails: logged, the file stays
              /\ UNCHANGED tempDir
              /\ FinishPdf(c, [rec EXCEPT !.unlinkFailed = TRUE],
                           CleanupResult(pending, TRUE))

-----------------------------------------------------------------------------
(* clear_cache and clear_temp_files *)

\* A clearing loop whose pattern matches no file.
ClearDirNothing(dir, bad, visited) == dir

\* A clearing loop whose except clause does not raise again.
ClearOutcomeSwallowed(bad) == Returned("none", <<>>)

\* What a clearing loop leaves of a directory: all of it is deleted, or the
\* unlink of one file fails after the files visited before it were deleted.
\* The exception ends the loop and is raised again (lines 183-185, 198-200).
ClearDir(dir, bad, visited) ==
    IF bad = {} THEN EmptyDir ELSE Remove(dir, visited)

ClearOutcome(bad) == IF bad = {} THEN Returned("none", <<>>) ELSE Raised("OSError", "")

ClearRecord(op, before, after, bad) ==
    Finished([NoOp EXCEPT !.op = op, !.before = DOMAIN before, !.left = DOMAIN after,
                          !.failedAt = bad, !.pred = Strip(last)],
             ClearOutcome(bad))

\* The ways a loop over the files of a directory can go: no unlink fails, or
\* the unlink of one file fails with any set of the other files visited first.
ClearRuns(dir) ==
    {[bad |-> {}, visited |-> DOMAIN dir]}
    \cup UNION {{[bad |-> {b}, visited |-> v] : v \in SUBSET (DOMAIN dir \ {b})} :
                    b \in DOMAIN dir}

ClearCache ==
    /\ Quiet
    /\ nops < MaxOps
    /\ nops' = nops + 1
    /\ \E run \in ClearRuns(cacheDir) :
         /\ IF run.bad = {} THEN NoFault ELSE Fault
         /\ cacheDir' = ClearDir(cacheDir, run.bad, run.visited)
         /\ last' = ClearRecord("clear_cache", cacheDir, cacheDir', run.bad)
    /\ UNCHANGED <<files, tempDir, nextId, calls, written>>

ClearTempFiles ==
    /\ Quiet
    /\ nops < MaxOps
    /\ nops' = nops + 1
    /\ \E run \in ClearRuns(tempDir) :
         /\ IF run.bad = {} THEN NoFault ELSE Fault
         /\ tempDir' = ClearDir(tempDir, run.bad, run.visited)
         /\ last' = ClearRecord("clear_temp_files", tempDir, tempDir', run.bad)
    /\ UNCHANGED <<files, cacheDir, nextId, calls, written>>

-----------------------------------------------------------------------------

Next ==
    \/ \E c \in Callers, f \in files : ProcessFile(c, f)
    \/ \E c \in Callers : LoadFromCache(c)
    \/ \E c \in Callers : CreateTempFile(c)
    \/ \E c \in Callers : LoadAndSplit(c)
    \/ \E c \in Callers : SaveToCache(c)
    \/ \E c \in Callers : CleanupTempFile(c)
    \/ ClearCache
    \/ ClearTempFiles

Spec == Init /\ [][Next]_vars

-----------------------------------------------------------------------------
(* Interleaved calls: two callers on one cache and one scratch directory *)

\* Neither the class nor its callers hold a lock, and cache_dir and temp_dir
\* are fixed paths: two threads, or two DocumentProcessor objects in one
\* working directory, run their calls step by step against the same files.
Threads == {1, 2}

\* The files of an interleaved run: PDFs passed as bytes under one name,
\* so that different files have different keys.
ConcInputs == {[shape |-> "bytes", content |-> b, name |-> <<"a", ".pdf">>] : b \in Contents}

ConcFileSets == {{f, g} : f \in ConcInputs, g \in ConcInputs}

\* The interleavings are explored without I/O faults.
InitConc ==
    /\ files \in ConcFileSets
    /\ cacheDir = EmptyDir
    /\ tempDir = EmptyDir
    /\ nextId = 1
    /\ calls = [c \in Threads |-> IdleFrame]
    /\ nops = 0
    /\ nfaults = MaxFaults
    /\ written = EmptyDir
    /\ last = NoOp

\* The part of a file no write has reached after a truncation: a read gives
\* NUL bytes there.
HoleBlock ==
    [page_content |-> [str |-> ""],
     metadata |-> [source |-> [str |-> None], page |-> [num |-> None]],
     type |-> [str |-> ""]]

\* write() through a file object whose position is behind k - 1 blocks: the
\* block lands at place k, whatever the file holds by now.
PutBlock(json, k, block) ==
    [i \in 1..(IF Len(json) > k THEN Len(json) ELSE k) |->
        IF i = k THEN block
        ELSE IF i <= Len(json) THEN json[i]
        ELSE HoleBlock]

\* json.load accepts the text: the whole list is there, without a gap.
ValidJson(json, n) ==
    /\ Len(json) = n
    /\ \A i \in 1..Len(json) : json[i] # HoleBlock

\* _save_to_cache, line 90: open(cache_path, 'w') creates the file or
\* truncates the one that is there.  Nothing is opened for an empty list
\* (line 164).
SaveOpen(c) ==
    LET fr == calls[c]
        path == fr.cache_path
    IN  /\ fr.pc = "save"
        /\ NoFault
        /\ UNCHANGED <<files, tempDir, nextId, nops, written, last>>
        /\ IF ~ShouldSave(fr.split_docs)
           THEN /\ calls' = [calls EXCEPT ![c].pc = "cleanup"]
                /\ UNCHANGED cacheDir
           ELSE /\ cacheDir' = (path :> PartialFile) @@ cacheDir
                /\ calls' = [calls EXCEPT ![c].pc = "write", ![c].offset = 0]

\* _save_to_cache, line 91: json.dump writes the text piece by piece
\* through the file object, here one dictionary at a time; after the last
\* piece the file is closed.
SaveWrite(c) ==
    LET fr == calls[c]
        path == fr.cache_path
        text == CacheFile(fr.split_docs).json
        k == fr.offset + 1
        json == PutBlock(cacheDir[path].json, k, text[k])
    IN  /\ fr.pc = "write"
        /\ NoFault
        /\ UNCHANGED <<files, tempDir, nextId, nops, last>>
        /\ cacheDir' = [cacheDir EXCEPT ![path] =
                            [complete |-> ValidJson(json, Len(text)), json |-> json]]
        /\ IF k < Len(text)
           THEN /\ calls' = [calls EXCEPT ![c].offset = k]
                /\ UNCHANGED written
           ELSE /\ calls' = [calls EXCEPT ![c].pc = "cleanup", ![c].offset = k,
                                          ![c].rec.saved = "ok"]
                /\ written' = (path :> [by |-> fr.rec.file, docs |-> fr.split_docs])
                                 @@ written

\* clear_temp_files, called while process_file calls are under way.
ClearTempFilesAnytime ==
    /\ nops < MaxOps
    /\ nops' = nops + 1
    /\ NoFault
    /\ tempDir' = ClearDir(tempDir, {}, DOMAIN tempDir)
    /\ last' = ClearRecord("clear_temp_files", tempDir, tempDir', {})
    /\ UNCHANGED <<files, cacheDir, nextId, calls, written>>

NextConc ==
    \/ \E c \in Threads, f \in files : ProcessFile(c, f)
    \/ \E c \in Threads : LoadFromCache(c)
    \/ \E c \in Threads : CreateTempFile(c)
    \/ \E c \in Threads : LoadAndSplit(c)
    \/ \E c \in Threads : SaveOpen(c)
    \/ \E c \in Threads : SaveWrite(c)
    \/ \E c \in Threads : CleanupTempFile(c)
    \/ ClearTempFilesAnytime

SpecConc == InitConc /\ [][NextConc]_vars

-----------------------------------------------------------------------------
(* Vocabulary of the properties *)

ProcessOp(rec) == rec.op = "process_file"

\* The call went into _process_pdf.
PdfCall(rec) ==
    /\ ProcessOp(rec)
    /\ ValidInput(rec.file)
    /\ FileType(rec.file.name) = "pdf"

SameInput(f, g) ==
    /\ f.content = g.content
    /\ f.name = g.name

\* last is a _process_pdf call that directly followed a process_file call
\* with the same bytes and name.
Repeated == PdfCall(last) /\ ProcessOp(last.pred) /\ SameInput(last.file, last.pred.file)

KeyOf(rec) == GetCachePath(rec.file.content, rec.file.name)

-----------------------------------------------------------------------------
(* C1 *)

\* C1, as stated: in a run without I/O faults, when a PDF call returned, the
\* next call with the same bytes and name returns the same chunk sequence
\* and is served from the cache record, without invoking the parser.
C1_SecondCallAlwaysFromCache ==
    (Repeated /\ last.pred.outcome = "return" /\ nfaults = 0)
        => /\ last.hit
           /\ ~last.parsed
           /\ last.outcome = "return"
           /\ last.docs = last.pred.docs

\* C1, amended: when a PDF call returned and left a complete cache record
\* (it wrote a non-empty chunk sequence, or was itself served from the
\* record), the next call with the same bytes and name, reading the record
\* without failure, returns the same chunk sequence from the cache record
\* and neither creates a scratch file nor invokes the parser.
C1_SecondCallFromCache ==
    (/\ Repeated
     /\ last.pred.outcome = "return"
     /\ last.pred.hit \/ last.pred.saved = "ok"
     /\ ~last.loadFailed)
        => /\ last.hit
           /\ ~last.parsed
           /\ ~last.scratchTried
           /\ last.outcome = "return"
           /\ last.docs = last.pred.docs

\* C1, witness: a second call served from the record the first call wrote.
C1_Witness ==
    /\ Repeated
    /\ last.pred.saved = "ok"
    /\ last.pred.parsed
    /\ last.hit
    /\ last.docs # <<>>

-----------------------------------------------------------------------------
(* C2 *)

\* C2, as stated: once a process_file call has finished, the scratch file it
\* created is not in the scratch directory.
C2_NoScratchFileOutlivesItsCall ==
    (Quiet /\ ProcessOp(last) /\ last.created # None)
        => last.created \notin DOMAIN tempDir

-----------------------------------------------------------------------------
(* C3 *)

\* C3, as stated: a call is never served from a cache record that a call
\* with other bytes or another name wrote.
C3_NoHitOnAnotherInputsRecord ==
    (PdfCall(last) /\ last.hit) => SameInput(last.file, last.hitBy)

-----------------------------------------------------------------------------
(* C4 *)

-----------------------------------------------------------------------------
(* C5 *)

\* C5: when the parser fails, the call raises (the parser's error wrapped by
\* process_file) and has written no cache record.
C5_ParseFailureReachesCaller ==
    (ProcessOp(last) /\ last.parseFailed)
        => /\ last.outcome = "raise"
           /\ last.etype = "Exception"
           /\ last.cause = "PdfError"
           /\ last.saved = "no"
           /\ Quiet => (KeyOf(last) \in DOMAIN cacheDir => KeyOf(last) \in last.before)

\* C5, witness: a call on a cache miss whose parser failed.
C5_Witness ==
    /\ PdfCall(last)
    /\ last.parseFailed
    /\ ~last.hit
    /\ ~last.loadFailed
    /\ last.created # None

-----------------------------------------------------------------------------
(* C6 *)

\* The chunks a parse of this call's own scratch file gives.
FreshChunks(rec) ==
    SplitDocuments(LoaderLoad((rec.created :> rec.file.content), rec.created))

\* C6: a call whose cache record could not be read or deserialized goes the
\* way of a cache miss: it is not served from the cache, it creates a scratch
\* file and parses it, what it returns are the chunks of that parse, and what
\* it raises is a scratch-write or parser error, never the read failure.
C6_UnreadableRecordIsAMiss ==
    (PdfCall(last) /\ last.loadFailed)
        => /\ ~last.hit
           /\ last.scratchTried
           /\ last.outcome \in {"return", "raise"}
           /\ last.outcome = "return"
                => /\ last.created # None
                   /\ last.parsed
                   /\ last.docs = FreshChunks(last)
           /\ last.outcome = "raise"
                => /\ last.etype = "Exception"
                   /\ last.cause \in {"OSError", "PdfError"}
                   /\ last.cause = "PdfError" <=> last.parsed

\* C6, witness: a call found a truncated record, parsed the file and
\* returned its chunks.
C6_Witness ==
    /\ PdfCall(last)
    /\ last.loadFailed
    /\ KeyOf(last) \in last.before
    /\ last.outcome = "return"
    /\ last.docs # <<>>

-----------------------------------------------------------------------------
(* C7 *)

\* C7, as stated: a call whose cache write failed still returns the chunks
\* of the splitter, and the next call on the same input, with no further
\* fault, returns the same chunks.
C7_SameChunksWithoutCache ==
    (Repeated /\ last.pred.saved = "failed" /\ nfaults = 1)
        => /\ last.pred.outcome = "return"
           /\ last.pred.docs = last.pred.fresh
           /\ last.outcome = "return"
           /\ last.docs = last.pred.docs

-----------------------------------------------------------------------------
(* C8 *)

\* C8: when the unlink of the scratch file fails, the call delivers what it
\* was about to deliver: the chunks of the splitter, or the parser's error.
C8_CleanupFailureSwallowed ==
    (PdfCall(last) /\ last.unlinkFailed)
        => /\ last.outcome = last.pending
           /\ last.outcome = "return" => last.docs = last.fresh /\ ~last.parseFailed
           /\ last.outcome = "raise" => last.cause = "PdfError" /\ last.parseFailed

\* C8, witness: the parser failed and then the unlink failed.
C8_Witness ==
    /\ PdfCall(last)
    /\ last.unlinkFailed
    /\ last.parseFailed
    /\ last.created \in DOMAIN tempDir

-----------------------------------------------------------------------------
(* C9 *)

\* C9: after clear_cache has returned the cache directory holds no record,
\* and a PDF call that follows it is not served from the cache: it creates
\* a scratch file and, unless that fails, invokes the parser.  After
\* clear_temp_files has returned the scratch directory holds no file.
C9_ClearedMeansEmpty ==
    /\ (Quiet /\ last.op = "clear_cache" /\ last.outcome = "return")
          => cacheDir = EmptyDir
    /\ (Quiet /\ last.op = "clear_temp_files" /\ last.outcome = "return")
          => tempDir = EmptyDir
    /\ (PdfCall(last) /\ last.pred.op = "clear_cache" /\ last.pred.outcome = "return")
          => /\ ~last.hit
             /\ ~last.loadFailed
             /\ last.scratchTried
             /\ last.parsed \/ last.cause = "OSError"

\* C9, witness: a PDF that was cached before clear_cache is parsed again by
\* the call after it.
C9_Witness ==
    /\ PdfCall(last)
    /\ last.pred.op = "clear_cache"
    /\ last.pred.outcome = "return"
    /\ KeyOf(last) \in last.pred.before
    /\ last.parsed

-----------------------------------------------------------------------------
(* C10 *)

ClearOp(rec) == rec.op \in {"clear_cache", "clear_temp_files"}

-----------------------------------------------------------------------------
(* C11 *)

\* The call never came near the cache or the scratch directory: no record
\* was looked up, read or written, no scratch file was asked for, and the
\* parser did not run.
Untouched(rec) ==
    /\ ~rec.lookedUp
    /\ ~rec.hit
    /\ ~rec.loadFailed
    /\ rec.saved = "no"
    /\ ~rec.scratchTried
    /\ rec.created = None
    /\ ~rec.parsed
    /\ ~rec.parseFailed

\* Until the next call begins, both directories are as they were when the
\* last call began.
DirsAsBefore ==
    Quiet => /\ cacheDir = last.cacheBefore
             /\ tempDir = last.tempBefore

\* C11: a process_file call whose input is invalid (bytes without a file
\* name, or neither bytes nor an object with content and name) raises at
\* once: the call is over in one step with the ValueError, wrapped in the
\* Exception of line 238; no cache record was read or written, no scratch
\* file created, the parser not invoked, and both directories are as before.
C11_InvalidInputRaisesAtOnce ==
    (ProcessOp(last) /\ last.file.shape \in {"bytes_noname", "other"})
        => /\ last.outcome = "raise"
           /\ last.etype = "Exception"
           /\ last.cause = "ValueError"
           /\ Untouched(last)
           /\ DirsAsBefore

\* C11, witness: bytes without a file name were rejected while the cache
\* held a record and the scratch directory a file.
C11_Witness ==
    /\ ProcessOp(last)
    /\ last.file.shape = "bytes_noname"
    /\ last.outcome = "raise"
    /\ Quiet
    /\ cacheDir # EmptyDir
    /\ tempDir # EmptyDir

-----------------------------------------------------------------------------
(* C12 *)

\* last is a process_file call with a valid input whose name ends in .txt,
\* in whatever case.
TxtCall(rec) ==
    /\ ProcessOp(rec)
    /\ rec.file.shape \in {"upload", "bytes"}
    /\ EndsWith(Lower(rec.file.name), ".txt")

\* C12, as stated: every call on a .txt name returns the UTF-8 decoding of
\* the bytes, without any cache or scratch interaction and without the
\* parser.
C12_TxtAlwaysReturnsDecoding ==
    TxtCall(last)
        => /\ last.outcome = "return"
           /\ last.kind = "text"
           /\ last.val = Decode(last.file.content)
           /\ Untouched(last)
           /\ DirsAsBefore

\* C12, amended: a call on a .txt name (case-insensitive) returns the UTF-8
\* decoding of the bytes when they are valid UTF-8, and otherwise raises the
\* Exception of line 238 that wraps the UnicodeDecodeError; either way
\* without any cache or scratch interaction and without the parser.
C12_TxtDecodedOrDecodeError ==
    TxtCall(last)
        => /\ DecodeOk(last.file.content)
              => /\ last.outcome = "return"
                 /\ last.kind = "text"
                 /\ last.val = Decode(last.file.content)
           /\ ~DecodeOk(last.file.content)
              => /\ last.outcome = "raise"
                 /\ last.etype = "Exception"
                 /\ last.cause = "UnicodeDecodeError"
           /\ Untouched(last)
           /\ DirsAsBefore

\* C12, witness: an upper-case .TXT name with two valid bytes was decoded
\* while the cache held a record and the scratch directory a file.
C12_Witness ==
    /\ TxtCall(last)
    /\ last.file.name = <<"a", ".TXT">>
    /\ last.outcome = "return"
    /\ last.val = <<"a", "a">>
    /\ Quiet
    /\ cacheDir # EmptyDir
    /\ tempDir # EmptyDir

-----------------------------------------------------------------------------
(* C13 *)

\* last is a process_file call with a valid input whose extension is
\* neither .pdf nor .txt.
OtherCall(rec) ==
    /\ ProcessOp(rec)
    /\ rec.file.shape \in {"upload", "bytes"}
    /\ ~EndsWith(Lower(rec.file.name), ".pdf")
    /\ ~EndsWith(Lower(rec.file.name), ".txt")

\* C13: a valid input whose extension is neither .pdf nor .txt gets a
\* result that says the type is unsupported and names the file; the call
\* does not raise, touches neither cache nor scratch file nor parser, and
\* leaves both directories as they were.
C13_UnsupportedTypeIsAResult ==
    OtherCall(last)
        => /\ last.outcome = "return"
           /\ last.kind = "unsupported"
           /\ last.val = last.file.name
           /\ Untouched(last)
           /\ DirsAsBefore

\* C13, witness: a .docx upload was answered while the cache held a record
\* and the scratch directory a file.
C13_Witness ==
    /\ OtherCall(last)
    /\ last.file.name = <<"a", ".docx">>
    /\ last.file.shape = "upload"
    /\ last.outcome = "return"
    /\ Quiet
    /\ cacheDir # EmptyDir
    /\ tempDir # EmptyDir

-----------------------------------------------------------------------------
(* C14 *)

\* The record of the call that ended last in thread c.
Done(c) == calls[c].rec

\* Exactly two operations were started, both have ended, and they were
\* process_file calls of the two threads on the same PDF that both returned
\* chunks of a parse or of the cache.
BothFinishedSamePdf ==
    /\ nops = 2
    /\ DOMAIN calls = Threads
    /\ \A c \in DOMAIN calls : /\ calls[c].pc = "idle"
                                /\ PdfCall(Done(c))
                                /\ Done(c).outcome = "return"
                                /\ Done(c).docs # <<>>
    /\ \A c, d \in DOMAIN calls : SameInput(Done(c).file, Done(d).file)

\* The chunk sequences the splitter produced for the file in these calls.
SplitterOutputs == {Done(c).fresh : c \in {d \in DOMAIN calls : Done(d).parsed}}

\* C14, as stated: when two process_file calls on the same PDF have run
\* interleaved and both have finished, each of them returned a chunk
\* sequence the splitter produced for that file, and the cache record of
\* the key is complete and holds exactly such a sequence.
C14_LastWriterWins ==
    BothFinishedSamePdf
        => \A c \in DOMAIN calls :
              /\ Done(c).docs \in SplitterOutputs
              /\ KeyOf(Done(c)) \in DOMAIN cacheDir
              /\ cacheDir[KeyOf(Done(c))].complete
              /\ CachedDocs(cacheDir[KeyOf(Done(c))]) \in SplitterOutputs

-----------------------------------------------------------------------------
(* C15 *)

\* Thread c is between the creation of its scratch file and the end of its
\* parse.
Parsing(c) == calls[c].pc = "parse"

\* C15, as stated: while a PDF call is between creating its scratch file
\* and finishing its parse, the file is there with the bytes the call wrote
\* (no other operation has deleted or overwritten it), and no other call
\* under way has a scratch file of the same name.
C15_ScratchFileExclusivelyOwned ==
    \A c \in DOMAIN calls :
        Parsing(c)
            => /\ calls[c].temp_path \in DOMAIN tempDir
               /\ tempDir[calls[c].temp_path] = calls[c].file_content
               /\ \A d \in DOMAIN calls \ {c} :
                    calls[d].pc # "idle" => calls[d].temp_path # calls[c].temp_path

-----------------------------------------------------------------------------
(* C16 *)

\* last is a _process_pdf call that returned to its caller, and no other
\* operation has begun since.
ReturnedPdfCall ==
    /\ PdfCall(last)
    /\ last.outcome = "return"
    /\ Quiet

\* C16, as stated: a PDF call that completes successfully and whose cache
\* write did not fail leaves a cache record for its key, whatever the chunk
\* sequence, an empty one included.
C16_EverySuccessfulCallLeavesARecord ==
    (ReturnedPdfCall /\ last.saved # "failed")
        => KeyOf(last) \in DOMAIN cacheDir

\* C16, amended: a PDF call that completes successfully after a parse that
\* gave a non-empty chunk sequence attempts the cache write, and when the
\* write does not fail the record of its key holds exactly that sequence;
\* a call served from the cache leaves the record in place; a call whose
\* parse gave no chunk writes nothing and leaves the cache directory as it
\* found it, so its key has no record unless there was one before.
C16_NonEmptyChunksLeaveARecord ==
    ReturnedPdfCall
        => /\ last.hit => KeyOf(last) \in DOMAIN cacheDir
           /\ (~last.hit /\ last.fresh # <<>>)
                => /\ last.saved \in {"ok", "failed"}
                   /\ last.saved = "ok"
                        => /\ KeyOf(last) \in DOMAIN cacheDir
                           /\ cacheDir[KeyOf(last)] = CacheFile(last.fresh)
           /\ (~last.hit /\ last.fresh = <<>>)
                => /\ last.saved = "no"
                   /\ cacheDir = last.cacheBefore

\* C16, witness: without any fault and without a cache clear, a PDF with
\* one blank page was processed successfully and its key has no record,
\* while the PDF processed before it has one.
C16_Witness ==
    /\ ReturnedPdfCall
    /\ nfaults = 0
    /\ last.file.content = <<"b">>
    /\ last.parsed
    /\ KeyOf(last) \notin DOMAIN cacheDir
    /\ PdfCall(last.pred)
    /\ last.pred.saved = "ok"
    /\ KeyOf(last.pred) \in DOMAIN cacheDir

-----------------------------------------------------------------------------
(* C17 *)

\* C17: a call served from the cache only deserialized the record: it asked
\* for no scratch file and created none, did not run the parser, did not
\* write to the cache, and when it is over the cache directory (the record
\* it read and every other one) and the scratch directory are exactly as
\* they were when it began; what it returned are the Documents of the
\* record.
C17_HitOnlyDeserializes ==
    (PdfCall(last) /\ last.hit)
        => /\ last.outcome = "return"
           /\ ~last.scratchTried
           /\ last.created = None
           /\ ~last.parsed
           /\ last.saved = "no"
           /\ DirsAsBefore
           /\ Quiet => /\ KeyOf(last) \in DOMAIN cacheDir
                       /\ last.docs = CachedDocs(cacheDir[KeyOf(last)])

\* C17, witness: a call was served from the cache while the cache held a
\* second record and the scratch directory a file left by an earlier call.
C17_Witness ==
    /\ PdfCall(last)
    /\ last.hit
    /\ Quiet
    /\ Cardinality(DOMAIN cacheDir) = 2
    /\ tempDir # EmptyDir

====
